---- MODULE Spec2Model ----
(***************************************************************************)
(* foldermd: a model of src/main.go.                                       *)
(*                                                                         *)
(* Strings of the program (entry names, ignore patterns, extensions, the   *)
(* lines of a file) are sequences of bytes, so that the byte-wise          *)
(* comparison, the glob match, the trimming and the splitting of the code  *)
(* are computed and not assumed.  Every tuple of numbers below carries the *)
(* text it spells in a comment or in its name.                             *)
(*                                                                         *)
(* The output document is a sequence of lines; a line is a record whose    *)
(* field k names the Fprintf that produced it.                             *)
(***************************************************************************)
EXTENDS Integers, Sequences, FiniteSets, TLC

VARIABLES
    pc,         \* position of the process: start, create, ignorefile, header, structure, contents, footer, done
    cmd,        \* the cobra command being run: "root" or "init"
    flags,      \* the command line: files, content, hidden, depth, ignore (raw --ignore text), output
    env,        \* the environment: targetExists, createFails
    fs,         \* the filesystem under the target directory: path -> node
    config,     \* the Config value (main.go:20-28) as RunE and generateReadme build it
    created,    \* TRUE once os.Create has returned the open output file
    doc,        \* the content of the output file, line by line
    treeOut,    \* the lines writeTree emitted
    treeErr,    \* writeTree returned an error
    contSecs,   \* the sections writeFileContents emitted, each with the path of its file
    contErr,    \* writeFileContents returned an error
    result      \* "none" while running, then "ok" (exit 0) or "error" (exit 1)

vars == <<pc, cmd, flags, env, fs, config, created, doc, treeOut, treeErr, contSecs, contErr, result>>

(***************************************************************************)
(* Bounds.                                                                 *)
(***************************************************************************)
\* --depth ranges over -1 .. MaxDepthFlag
MaxDepthFlag == 1

(***************************************************************************)
(* strings                                                                 *)
(***************************************************************************)
\* unicode.IsSpace on the ASCII range: \t \n \v \f \r and space
IsSpace(c) == c \in {9, 10, 11, 12, 13, 32}

RECURSIVE TrimLeft(_)
TrimLeft(s) == IF s # <<>> /\ IsSpace(Head(s)) THEN TrimLeft(Tail(s)) ELSE s

RECURSIVE TrimRight(_)
TrimRight(s) ==
    IF s # <<>> /\ IsSpace(s[Len(s)]) THEN TrimRight(SubSeq(s, 1, Len(s) - 1)) ELSE s

\* strings.TrimSpace
TrimSpace(s) == TrimRight(TrimLeft(s))

\* strings.HasPrefix
HasPrefix(s, p) == Len(s) >= Len(p) /\ SubSeq(s, 1, Len(p)) = p

\* strings.Contains(s, "c") for a one-byte needle
ContainsByte(s, c) == \E i \in 1..Len(s) : s[i] = c

\* index of the first byte c of s, 0 when there is none
IndexByte(s, c) ==
    IF ContainsByte(s, c) THEN CHOOSE i \in 1..Len(s) : s[i] = c /\ \A j \in 1..(i - 1) : s[j] # c
    ELSE 0

\* strings.Split(s, ","): the pieces between the separators; Split("") is [""]
RECURSIVE Split(_, _)
Split(s, sep) ==
    LET i == IndexByte(s, sep)
    IN  IF i = 0 THEN <<s>>
        ELSE <<SubSeq(s, 1, i - 1)>> \o Split(SubSeq(s, i + 1, Len(s)), sep)

\* strings.Join(parts, ", ")
RECURSIVE Join(_)
Join(parts) ==
    IF parts = <<>> THEN <<>>
    ELSE IF Len(parts) = 1 THEN parts[1]
    ELSE parts[1] \o <<44, 32>> \o Join(Tail(parts))

\* the < of Go strings: byte-wise lexicographic
RECURSIVE StrLess(_, _)
StrLess(a, b) ==
    IF b = <<>> THEN FALSE
    ELSE IF a = <<>> THEN TRUE
    ELSE IF Head(a) # Head(b) THEN Head(a) < Head(b)
    ELSE StrLess(Tail(a), Tail(b))

\* strings.ToLower on ASCII
ToLower(s) == [i \in 1..Len(s) |-> IF s[i] >= 65 /\ s[i] <= 90 THEN s[i] + 32 ELSE s[i]]

\* filepath.Ext of a path whose last element is name: from the last dot on
Ext(name) ==
    IF ContainsByte(name, 46)
    THEN LET i == CHOOSE k \in 1..Len(name) : name[k] = 46 /\ \A j \in (k + 1)..Len(name) : name[j] # 46
         IN  SubSeq(name, i, Len(name))
    ELSE <<>>

(***************************************************************************)
(* Matcher                                                                 *)
(***************************************************************************)
\* filepath.Match(pattern, name) for patterns over literals, * and ?
\* (the patterns of this model contain no [ and no backslash); a name has
\* no separator, so * and ? match any byte of it
RECURSIVE Match(_, _)
Match(pattern, name) ==
    IF pattern = <<>> THEN name = <<>>
    ELSE IF Head(pattern) = 42
         THEN Match(Tail(pattern), name) \/ (name # <<>> /\ Match(pattern, Tail(name)))
    ELSE IF Head(pattern) = 63
         THEN name # <<>> /\ Match(Tail(pattern), Tail(name))
    ELSE name # <<>> /\ Head(name) = Head(pattern) /\ Match(Tail(pattern), Tail(name))

\* one iteration of the loop of shouldIgnore
PatternHits(pattern, name) ==
    LET p == TrimSpace(pattern)
    IN  \/ p = name
        \/ ContainsByte(p, 42) /\ Match(p, name)

\* shouldIgnore with the result of the glob match dropped: any pattern with
\* a * ignores every name
shouldIgnore_anyStar(name, cfg) ==
    \E i \in 1..Len(cfg.ignorePatterns) :
        LET p == TrimSpace(cfg.ignorePatterns[i])
        IN  p = name \/ ContainsByte(p, 42)

\* shouldIgnore(name, config)
shouldIgnore(name, cfg) ==
    \E i \in 1..Len(cfg.ignorePatterns) : PatternHits(cfg.ignorePatterns[i], name)

(***************************************************************************)
(* Classifier                                                              *)
(***************************************************************************)
Unit == 1024
SniffLen == 512
SizeLimit == 1024 * 1024

languages ==
    {
       <<<<46, 103, 111>>, "go">>,
       <<<<46, 112, 121>>, "python">>,
       <<<<46, 106, 115>>, "javascript">>,
       <<<<46, 116, 115>>, "typescript">>,
       <<<<46, 106, 115, 120>>, "jsx">>,
       <<<<46, 116, 115, 120>>, "tsx">>,
       <<<<46, 106, 97, 118, 97>>, "java">>,
       <<<<46, 99>>, "c">>,
       <<<<46, 99, 112, 112>>, "cpp">>,
       <<<<46, 99, 99>>, "cpp">>,
       <<<<46, 99, 120, 120>>, "cpp">>,
       <<<<46, 104>>, "c">>,
       <<<<46, 104, 112, 112>>, "cpp">>,
       <<<<46, 104, 120, 120>>, "cpp">>,
       <<<<46, 114, 115>>, "rust">>,
       <<<<46, 112, 104, 112>>, "php">>,
       <<<<46, 114, 98>>, "ruby">>,
       <<<<46, 115, 104>>, "bash">>,
       <<<<46, 98, 97, 115, 104>>, "bash">>,
       <<<<46, 122, 115, 104>>, "zsh">>,
       <<<<46, 102, 105, 115, 104>>, "fish">>,
       <<<<46, 112, 115, 49>>, "powershell">>,
       <<<<46, 104, 116, 109, 108>>, "html">>,
       <<<<46, 104, 116, 109>>, "html">>,
       <<<<46, 99, 115, 115>>, "css">>,
       <<<<46, 115, 99, 115, 115>>, "scss">>,
       <<<<46, 115, 97, 115, 115>>, "sass">>,
       <<<<46, 108, 101, 115, 115>>, "less">>,
       <<<<46, 120, 109, 108>>, "xml">>,
       <<<<46, 106, 115, 111, 110>>, "json">>,
       <<<<46, 121, 97, 109, 108>>, "yaml">>,
       <<<<46, 121, 109, 108>>, "yaml">>,
       <<<<46, 116, 111, 109, 108>>, "toml">>,
       <<<<46, 105, 110, 105>>, "ini">>,
       <<<<46, 99, 102, 103>>, "ini">>,
       <<<<46, 99, 111, 110, 102>>, "ini">>,
       <<<<46, 109, 100>>, "markdown">>,
       <<<<46, 116, 120, 116>>, "text">>,
       <<<<46, 115, 113, 108>>, "sql">>,
       <<<<46, 114>>, "r">>,
       <<<<46, 109>>, "matlab">>,
       <<<<46, 115, 119, 105, 102, 116>>, "swift">>,
       <<<<46, 107, 116>>, "kotlin">>,
       <<<<46, 107, 116, 115>>, "kotlin">>,
       <<<<46, 115, 99, 97, 108, 97>>, "scala">>,
       <<<<46, 99, 108, 106>>, "clojure">>,
       <<<<46, 99, 108, 106, 115>>, "clojure">>,
       <<<<46, 104, 115>>, "haskell">>,
       <<<<46, 101, 108, 109>>, "elm">>,
       <<<<46, 101, 120>>, "elixir">>,
       <<<<46, 101, 120, 115>>, "elixir">>,
       <<<<46, 101, 114, 108>>, "erlang">>,
       <<<<46, 100, 97, 114, 116>>, "dart">>,
       <<<<46, 108, 117, 97>>, "lua">>,
       <<<<46, 112, 108>>, "perl">>,
       <<<<46, 118, 105, 109>>, "vim">>,
       <<<<46, 100, 111, 99, 107, 101, 114, 102, 105, 108, 101>>, "dockerfile">>,
       <<<<46, 103, 105, 116, 105, 103, 110, 111, 114, 101>>, "gitignore">>,
       <<<<46, 101, 110, 118>>, "bash">>,
       <<<<46, 109, 97, 107, 101, 102, 105, 108, 101>>, "makefile">>,
       <<<<46, 99, 109, 97, 107, 101>>, "cmake">>
    }

\* getLanguageFromExtension
getLanguageFromExtension(ext) ==
    IF \E row \in languages : row[1] = ext
    THEN (CHOOSE row \in languages : row[1] = ext)[2]
    ELSE "text"

\* the loop of formatFileSize: [div, exp] after it
RECURSIVE SizeLoop(_, _, _)
SizeLoop(n, div, exp) ==
    IF n >= Unit THEN SizeLoop(n \div Unit, div * Unit, exp + 1) ELSE <<div, exp>>

\* formatFileSize: <<whole, tenth, unit>>; "%d B" has no decimal (tenth -1),
\* "%.1f %cB" rounds size/div to one decimal, an exact tie going to the even digit
formatFileSize(size) ==
    IF size < Unit THEN <<size, -1, "B">>
    ELSE LET de == SizeLoop(size \div Unit, Unit, 0)
             q  == (size * 10) \div de[1]
             r  == (size * 10) % de[1]
             t  == IF 2 * r > de[1] THEN q + 1
                   ELSE IF 2 * r = de[1] THEN q + (q % 2)
                   ELSE q
         IN  <<t \div 10, t % 10, <<"KB", "MB", "GB", "TB", "PB", "EB">>[de[2] + 1]>>

\* isTextFile without the scan for null bytes
isTextFile_noNullScan(node) ==
    LET n == IF node.size < SniffLen THEN node.size ELSE SniffLen
    IN  node.openable /\ n # 0

\* isTextFile on a file node: Open fails -> false; the first Read returns
\* n = min(size, 512) bytes, with EOF and n = 0 on an empty file -> false;
\* a null byte among the first n bytes -> false
isTextFile(node) ==
    LET n == IF node.size < SniffLen THEN node.size ELSE SniffLen
    IN  /\ node.openable
        /\ n # 0
        /\ ~(node.nullAt # 0 /\ node.nullAt <= n)

(***************************************************************************)
(* The filesystem and the lines of the document                            *)
(***************************************************************************)
\* A path is the sequence of entry names below the target directory; <<>>
\* is the target directory itself.  A node is a directory (readable: its
\* listing succeeds) or a file (openable: Open succeeds; ioError: reading
\* past the first block fails; size in bytes; nullAt: offset of the first
\* null byte, 0 when there is none; lines: its content).
Ln(k) == [k |-> k, path |-> <<>>, txt |-> <<>>, lang |-> "", sz |-> <<0, -1, "">>,
          pre |-> <<>>, conn |-> "", glyph |-> "", n |-> 0]

Raw(t) == [Ln("raw") EXCEPT !.txt = t]

DirNode(r) == [isDir |-> TRUE, readable |-> r, openable |-> TRUE, ioError |-> FALSE,
               size |-> 0, nullAt |-> 0, lines |-> <<>>]

FileNode(size, nullAt, lines) ==
    [isDir |-> FALSE, readable |-> FALSE, openable |-> TRUE, ioError |-> FALSE,
     size |-> size, nullAt |-> nullAt, lines |-> lines]

Parent(p) == SubSeq(p, 1, Len(p) - 1)
Base(p) == p[Len(p)]

\* the names of the entries of directory dir
ChildNames(f, dir) == {Base(p) : p \in {q \in DOMAIN f : q # <<>> /\ Parent(q) = dir}}

\* a set of names as the sequence sorted by filename
RECURSIVE SortNames(_)
SortNames(S) ==
    IF S = {} THEN <<>>
    ELSE LET m == CHOOSE x \in S : \A y \in S \ {x} : StrLess(x, y)
         IN  <<m>> \o SortNames(S \ {m})

\* os.ReadDir(dir): all entries of the directory, sorted by filename
ReadDir(f, dir) == SortNames(ChildNames(f, dir))

\* the size of the output document while it is being written: the model
\* counts one unit per line written
DocSize(d) == Len(d)

\* the node the content pass finds at path: the output file holds what has
\* been written to it so far
NodeAt(f, cfg, path, written) ==
    IF cfg.outputFile.inside /\ cfg.outputFile.path = path
    THEN [f[path] EXCEPT !.size = DocSize(written), !.lines = written]
    ELSE f[path]

(***************************************************************************)
(* TreeRenderer                                                            *)
(***************************************************************************)
\* the filter loop of writeTree (main.go:231-242): TRUE when the entry is kept
keepEntry(f, dir, cfg, name) ==
    /\ ~shouldIgnore(name, cfg)
    /\ ~(~cfg.showHidden /\ HasPrefix(name, <<46>>))
    /\ ~(~cfg.includeFiles /\ ~f[dir \o <<name>>].isDir)

\* a less function that compares the names only
entryLess_byName(f, dir, a, b) == StrLess(a, b)

\* the less function handed to sort.Slice (main.go:245-250)
entryLess(f, dir, a, b) ==
    IF f[dir \o <<a>>].isDir # f[dir \o <<b>>].isDir
    THEN f[dir \o <<a>>].isDir
    ELSE StrLess(a, b)

\* sort.Slice: the names in the order of entryLess
RECURSIVE InsertEntry(_, _, _, _)
InsertEntry(f, dir, s, x) ==
    IF s = <<>> THEN <<x>>
    ELSE IF entryLess(f, dir, x, Head(s)) THEN <<x>> \o s
    ELSE <<Head(s)>> \o InsertEntry(f, dir, Tail(s), x)

RECURSIVE SortSlice(_, _, _)
SortSlice(f, dir, s) ==
    IF s = <<>> THEN <<>>
    ELSE InsertEntry(f, dir, SortSlice(f, dir, SubSeq(s, 1, Len(s) - 1)), s[Len(s)])

\* the line of one entry (main.go:253-277)
treeLine(f, dir, prefix, cfg, name, isLast) ==
    LET isDir == f[dir \o <<name>>].isDir
    IN  [Ln("tree") EXCEPT
            !.path = dir \o <<name>>,
            !.pre = prefix,
            !.conn = IF isLast THEN "\\-- " ELSE "|-- ",
            !.glyph = IF cfg.includeContent THEN (IF isDir THEN "dir" ELSE "file") ELSE "",
            !.txt = IF isDir THEN name \o <<47>> ELSE name]

\* writeTree: [out: the lines written, err: an error was returned]
RECURSIVE writeTree(_, _, _, _, _)
RECURSIVE writeEntries(_, _, _, _, _, _, _)
\* writeTree with the depth test off by one: it stops at depth = maxDepth
writeTree_stopsAtMaxDepth(f, dir, prefix, cfg, depth) ==
    IF cfg.maxDepth >= 0 /\ depth >= cfg.maxDepth THEN [out |-> <<>>, err |-> FALSE]
    ELSE IF ~f[dir].readable THEN [out |-> <<>>, err |-> TRUE]
    ELSE LET entries == ReadDir(f, dir)
             filteredEntries == SelectSeq(entries, LAMBDA name : keepEntry(f, dir, cfg, name))
         IN  writeEntries(f, dir, prefix, cfg, depth, SortSlice(f, dir, filteredEntries), 1)

writeTree(f, dir, prefix, cfg, depth) ==
    IF cfg.maxDepth >= 0 /\ depth > cfg.maxDepth THEN [out |-> <<>>, err |-> FALSE]
    ELSE IF ~f[dir].readable THEN [out |-> <<>>, err |-> TRUE]
    ELSE LET entries == ReadDir(f, dir)
             filteredEntries == SelectSeq(entries, LAMBDA name : keepEntry(f, dir, cfg, name))
         IN  writeEntries(f, dir, prefix, cfg, depth, SortSlice(f, dir, filteredEntries), 1)

\* the loop over the sorted entries, from index i on (main.go:252-286)
writeEntries(f, dir, prefix, cfg, depth, es, i) ==
    IF i > Len(es) THEN [out |-> <<>>, err |-> FALSE]
    ELSE LET isLast == i = Len(es)
             nextPrefix == prefix \o <<IF isLast THEN "    " ELSE "|   ">>
             line == treeLine(f, dir, prefix, cfg, es[i], isLast)
             sub == IF f[dir \o <<es[i]>>].isDir
                    THEN writeTree(f, dir \o <<es[i]>>, nextPrefix, cfg, depth + 1)
                    ELSE [out |-> <<>>, err |-> FALSE]
         IN  IF sub.err THEN [out |-> <<line>> \o sub.out, err |-> TRUE]
             ELSE LET rest == writeEntries(f, dir, prefix, cfg, depth, es, i + 1)
                  IN  [out |-> <<line>> \o sub.out \o rest.out, err |-> rest.err]

(***************************************************************************)
(* ContentRenderer                                                         *)
(***************************************************************************)
\* the section of one file (main.go:321-360)
fileSection(cfg, path, node) ==
    LET head == [Ln("section") EXCEPT !.path = path]
        fsz == formatFileSize(node.size)
    IN  IF node.size > SizeLimit
        THEN <<head, [Ln("toolarge") EXCEPT !.sz = fsz]>>
        ELSE IF ~isTextFile(node)
        THEN <<head, [Ln("binary") EXCEPT !.sz = fsz]>>
        ELSE IF node.ioError
        THEN <<head, Ln("readerror")>>
        ELSE LET lang == getLanguageFromExtension(ToLower(Ext(Base(path))))
             IN  <<head, [Ln("meta") EXCEPT !.sz = fsz, !.lang = lang],
                   [Ln("fence") EXCEPT !.lang = lang]>>
                 \o node.lines \o <<Ln("fence")>>

\* the WalkDir callback on a file (main.go:301-360): the lines it writes
fileCallback(f, cfg, path, written) ==
    LET currentDepth == Len(path) - 1
    IN  IF cfg.maxDepth >= 0 /\ currentDepth > cfg.maxDepth THEN <<>>
        ELSE IF shouldIgnore(Base(path), cfg) THEN <<>>
        ELSE IF ~cfg.showHidden /\ HasPrefix(Base(path), <<46>>) THEN <<>>
        ELSE fileSection(cfg, path, NodeAt(f, cfg, path, written))

\* filepath.WalkDir with the callback of writeFileContents; acc is
\* [doc: the output file so far, secs: the sections of this pass, each with
\* the path of its file, err: the walk returned an error]
RECURSIVE walkVisit(_, _, _, _)
RECURSIVE walkList(_, _, _, _, _, _)
\* the walk with a callback that returns nil on a listing error, as the
\* callback of writeProjectInfo does
walkVisit_swallowsError(f, cfg, path, acc) ==
    LET currentDepth == IF path = <<>> THEN 0 ELSE Len(path) - 1
    IN  IF f[path].isDir
        THEN IF cfg.maxDepth >= 0 /\ currentDepth > cfg.maxDepth THEN acc
             ELSE IF ~f[path].readable THEN acc
             ELSE walkList(f, cfg, path, ReadDir(f, path), 1, acc)
        ELSE LET sec == fileCallback(f, cfg, path, acc.doc)
             IN  IF sec = <<>> THEN acc
                 ELSE [acc EXCEPT !.doc = @ \o sec,
                                  !.secs = Append(@, [path |-> path, lines |-> sec])]

walkVisit(f, cfg, path, acc) ==
    LET currentDepth == IF path = <<>> THEN 0 ELSE Len(path) - 1
    IN  IF f[path].isDir
        THEN IF cfg.maxDepth >= 0 /\ currentDepth > cfg.maxDepth THEN acc
             ELSE IF ~f[path].readable THEN [acc EXCEPT !.err = TRUE]
             ELSE walkList(f, cfg, path, ReadDir(f, path), 1, acc)
        ELSE LET sec == fileCallback(f, cfg, path, acc.doc)
             IN  IF sec = <<>> THEN acc
                 ELSE [acc EXCEPT !.doc = @ \o sec,
                                  !.secs = Append(@, [path |-> path, lines |-> sec])]

walkList(f, cfg, dir, names, i, acc) ==
    IF i > Len(names) THEN acc
    ELSE LET a == walkVisit(f, cfg, dir \o <<names[i]>>, acc)
         IN  IF a.err THEN a ELSE walkList(f, cfg, dir, names, i + 1, a)

\* writeFileContents(file, targetDir, config, 0)
writeFileContents(f, cfg, written) ==
    IF cfg.maxDepth >= 0 /\ 0 > cfg.maxDepth THEN [doc |-> written, secs |-> <<>>, err |-> FALSE]
    ELSE walkVisit(f, cfg, <<>>, [doc |-> written, secs |-> <<>>, err |-> FALSE])

(***************************************************************************)
(* ReportWriter                                                            *)
(***************************************************************************)
\* the walk of writeProjectInfo: <<fileCount, dirCount>> below and at path;
\* a listing error is swallowed by the callback and the walk goes on
RECURSIVE countWalk(_, _)
RECURSIVE countList(_, _, _, _)
countWalk(f, path) ==
    IF f[path].isDir
    THEN IF f[path].readable
         THEN LET c == countList(f, path, ReadDir(f, path), 1) IN <<c[1], c[2] + 1>>
         ELSE <<0, 1>>
    ELSE <<1, 0>>

countList(f, dir, names, i) ==
    IF i > Len(names) THEN <<0, 0>>
    ELSE LET a == countWalk(f, dir \o <<names[i]>>)
             b == countList(f, dir, names, i + 1)
         IN  <<a[1] + b[1], a[2] + b[2]>>

\* writeProjectInfo
writeProjectInfo(f) ==
    LET c == countWalk(f, <<>>)
    IN  <<Ln("overview"),
          [Ln("totalFiles") EXCEPT !.n = c[1]],
          [Ln("totalDirs") EXCEPT !.n = c[2] - 1],
          Ln("projectRoot")>>

Bit(b) == IF b THEN 1 ELSE 0

\* writeFooter
writeFooter(cfg) ==
    <<Ln("rule"), Ln("generatedWith"), Ln("configurationUsed"),
      [Ln("cfgFiles") EXCEPT !.n = Bit(cfg.includeFiles)],
      [Ln("cfgContent") EXCEPT !.n = Bit(cfg.includeContent)],
      [Ln("cfgDepth") EXCEPT !.n = cfg.maxDepth],
      [Ln("cfgHidden") EXCEPT !.n = Bit(cfg.showHidden)],
      [Ln("cfgIgnore") EXCEPT !.txt = Join(cfg.ignorePatterns)],
      Ln("closing")>>

\* readIgnoreFile: [patterns, err]
readIgnoreFile(node) ==
    IF node.isDir \/ ~node.openable THEN [patterns |-> <<>>, err |-> TRUE]
    ELSE LET trimmed == [i \in 1..Len(node.lines) |-> TrimSpace(node.lines[i].txt)]
             kept == SelectSeq(trimmed, LAMBDA line : line # <<>> /\ ~HasPrefix(line, <<35>>))
         IN  [patterns |-> kept, err |-> node.ioError]

IgnoreFileName == <<46, 102, 111, 108, 100, 101, 114, 109, 100, 46, 105, 103, 110, 111, 114, 101>>

\* the content createIgnoreFile writes (main.go:527-577)
DefaultIgnoreLines ==
    <<
       <<35, 32, 102, 111, 108, 100, 101, 114, 109, 100, 32, 105, 103, 110, 111, 114, 101, 32, 112, 97, 116, 116, 101, 114, 110, 115>>,
       <<35, 32, 76, 105, 110, 101, 115, 32, 115, 116, 97, 114, 116, 105, 110, 103, 32, 119, 105, 116, 104, 32, 35, 32, 97, 114, 101, 32, 99, 111, 109, 109, 101, 110, 116, 115>>,
       <<35, 32, 85, 115, 101, 32, 103, 108, 111, 98, 32, 112, 97, 116, 116, 101, 114, 110, 115, 32, 116, 111, 32, 109, 97, 116, 99, 104, 32, 102, 105, 108, 101, 115, 32, 97, 110, 100, 32, 100, 105, 114, 101, 99, 116, 111, 114, 105, 101, 115>>,
       <<>>,
       <<35, 32, 86, 101, 114, 115, 105, 111, 110, 32, 99, 111, 110, 116, 114, 111, 108>>,
       <<46, 103, 105, 116>>,
       <<46, 115, 118, 110>>,
       <<46, 104, 103>>,
       <<>>,
       <<35, 32, 68, 101, 112, 101, 110, 100, 101, 110, 99, 105, 101, 115>>,
       <<110, 111, 100, 101, 95, 109, 111, 100, 117, 108, 101, 115>>,
       <<118, 101, 110, 100, 111, 114>>,
       <<95, 95, 112, 121, 99, 97, 99, 104, 101, 95, 95>>,
       <<46, 118, 101, 110, 118>>,
       <<118, 101, 110, 118>>,
       <<>>,
       <<35, 32, 66, 117, 105, 108, 100, 32, 111, 117, 116, 112, 117, 116, 115>>,
       <<98, 117, 105, 108, 100>>,
       <<100, 105, 115, 116>>,
       <<111, 117, 116>>,
       <<116, 97, 114, 103, 101, 116>>,
       <<98, 105, 110>>,
       <<111, 98, 106>>,
       <<>>,
       <<35, 32, 73, 68, 69, 32, 97, 110, 100, 32, 101, 100, 105, 116, 111, 114, 32, 102, 105, 108, 101, 115>>,
       <<46, 118, 115, 99, 111, 100, 101>>,
       <<46, 105, 100, 101, 97>>,
       <<42, 46, 115, 119, 112>>,
       <<42, 46, 115, 119, 111>>,
       <<42, 126>>,
       <<>>,
       <<35, 32, 79, 83, 32, 103, 101, 110, 101, 114, 97, 116, 101, 100, 32, 102, 105, 108, 101, 115>>,
       <<46, 68, 83, 95, 83, 116, 111, 114, 101>>,
       <<84, 104, 117, 109, 98, 115, 46, 100, 98>>,
       <<68, 101, 115, 107, 116, 111, 112, 46, 105, 110, 105>>,
       <<>>,
       <<35, 32, 76, 111, 103, 115>>,
       <<42, 46, 108, 111, 103>>,
       <<108, 111, 103, 115>>,
       <<>>,
       <<35, 32, 84, 101, 109, 112, 111, 114, 97, 114, 121, 32, 102, 105, 108, 101, 115>>,
       <<116, 109, 112>>,
       <<116, 101, 109, 112>>,
       <<42, 46, 116, 109, 112>>,
       <<42, 46, 116, 101, 109, 112>>,
       <<>>,
       <<35, 32, 65, 114, 99, 104, 105, 118, 101, 115>>,
       <<42, 46, 122, 105, 112>>,
       <<42, 46, 116, 97, 114, 46, 103, 122>>,
       <<42, 46, 114, 97, 114>>,
       <<42, 46, 55, 122>>
    >>

DefaultIgnoreFile ==
    FileNode(458, 0, [i \in 1..Len(DefaultIgnoreLines) |-> Raw(DefaultIgnoreLines[i])])

(***************************************************************************)
(* Inputs                                                                  *)
(***************************************************************************)
\* values of --ignore: empty, the default of main.go:116, one with blanks
IgnoreFlags ==
    { <<>>,
      <<46, 103, 105, 116, 44, 46, 68, 83, 95, 83, 116, 111, 114, 101, 44, 110, 111, 100, 101, 95, 109, 111, 100, 117, 108, 101, 115, 44, 42, 46, 108, 111, 103>>,
      <<108, 105, 98, 44, 32, 42, 46, 109, 100>> }

\* values of --output: a file outside the target directory, README.md in
\* it, OUT.md in its subdirectory lib
Outside == [inside |-> FALSE, path |-> <<>>]
OutReadme == [inside |-> TRUE, path |-> << <<82, 69, 65, 68, 77, 69, 46, 109, 100>> >>]
OutLib == [inside |-> TRUE, path |-> << <<108, 105, 98>>, <<79, 85, 84, 46, 109, 100>> >>]
Outputs == {Outside, OutReadme, OutLib}

Flags ==
    [files : BOOLEAN, content : BOOLEAN, hidden : BOOLEAN,
     depth : -1..MaxDepthFlag, ignore : IgnoreFlags, output : Outputs]

DefaultFlags ==
    [files |-> FALSE, content |-> FALSE, hidden |-> FALSE, depth |-> -1,
     ignore |-> <<46, 103, 105, 116, 44, 46, 68, 83, 95, 83, 116, 111, 114, 101, 44, 110, 111, 100, 101, 95, 109, 111, 100, 117, 108, 101, 115, 44, 42, 46, 108, 111, 103>>, output |-> OutReadme]

TextLine == Raw(<<112, 97, 99, 107, 97, 103, 101, 32, 109, 97, 105, 110>>)
FenceLine == Raw(<<96, 96, 96>>)

PlainFile == FileNode(10, 0, <<TextLine>>)

\* the shapes of the file a.go
FileShapes ==
    { PlainFile,                                                      \* text
      FileNode(0, 0, <<>>),                                           \* empty
      FileNode(10, 3, <<TextLine>>),                                  \* null byte at offset 3
      FileNode(600, 513, <<TextLine>>),                               \* null byte past the first 512
      FileNode(SizeLimit, 0, <<TextLine>>),                           \* exactly 1 MiB
      FileNode(SizeLimit + 1, 1, <<TextLine>>),                       \* over 1 MiB, null byte first
      [FileNode(10, 0, <<TextLine>>) EXCEPT !.openable = FALSE],      \* Open fails
      [FileNode(600, 0, <<TextLine>>) EXCEPT !.ioError = TRUE],       \* ReadFile fails
      FileNode(16, 0, <<TextLine, FenceLine>>) }                      \* a line of three backticks

\* the directories one of which may be unreadable
Dirs == { <<>>, << <<108, 105, 98>> >>, << <<108, 105, 98>>, <<115, 117, 98>> >>, << <<46, 103, 105, 116>> >>, << <<87, 101, 98>> >> }
Unreadable == { {} } \cup { {d} : d \in Dirs \ { << <<87, 101, 98>> >> } }

\* the content of a .foldermd.ignore: a comment, a blank line, two patterns
UserIgnoreFile ==
    FileNode(30, 0, << Raw(<<35, 32, 109, 105, 110, 101>>), Raw(<<>>), Raw(<<32, 32, 87, 101, 98, 32>>), Raw(<<42, 46, 98, 105, 110>>) >>)

Files(shape) ==
    << <<97, 46, 103, 111>> >>                  :> shape @@
    << <<82, 69, 65, 68, 77, 69, 46, 109, 100>> >>             :> FileNode(12, 0, << Raw(<<35, 32, 111, 108, 100, 32, 114, 101, 97, 100, 109, 101>>) >>) @@
    << <<122, 46, 98, 105, 110>> >>                 :> FileNode(8, 1, << Raw(<<0, 1>>) >>) @@
    << <<108, 105, 98>>, <<120, 46, 108, 111, 103>> >>        :> FileNode(5, 0, << Raw(<<108, 105, 110, 101, 49>>) >>) @@
    << <<108, 105, 98>>, <<115, 117, 98>>, <<100, 101, 101, 112, 46, 77, 68>> >> :> FileNode(6, 0, << Raw(<<35, 32, 100, 101, 101, 112>>) >>) @@
    << <<46, 103, 105, 116>>, <<72, 69, 65, 68>> >>        :> FileNode(4, 0, << Raw(<<114, 101, 102, 58>>) >>)

\* a filesystem: the fixed entries, a.go of the given shape, the directories
\* of unread unreadable, and .foldermd.ignore when withIgnore
MkFs(shape, unread, withIgnore) ==
    LET files == IF withIgnore
                 THEN Files(shape) @@ (<<IgnoreFileName>> :> UserIgnoreFile)
                 ELSE Files(shape)
    IN  [p \in Dirs \cup DOMAIN files |->
            IF p \in Dirs THEN DirNode(p \notin unread) ELSE files[p]]

FileSystems ==
    { MkFs(shape, unread, withIgnore) :
        shape \in FileShapes, unread \in Unreadable, withIgnore \in BOOLEAN }

(***************************************************************************)
(* The program                                                             *)
(***************************************************************************)
Init ==
    /\ pc = "start"
    /\ cmd \in {"root", "init"}
    /\ flags \in Flags
    /\ cmd = "init" => flags = DefaultFlags
    /\ fs \in FileSystems
    \* the content of a file is read in content mode only
    /\ ~flags.content => fs[<< <<97, 46, 103, 111>> >>] = PlainFile
    /\ env = [targetExists |-> TRUE]
    /\ config = [includeFiles |-> flags.files, includeContent |-> flags.content,
                 outputFile |-> flags.output, ignorePatterns |-> <<>>,
                 maxDepth |-> flags.depth, showHidden |-> flags.hidden]
    /\ created = FALSE
    /\ doc = <<>>
    /\ treeOut = <<>>
    /\ treeErr = FALSE
    /\ contSecs = <<>>
    /\ contErr = FALSE
    /\ result = "none"

Finish(r) == pc' = "done" /\ result' = r

\* the ignore list RunE builds from --ignore (main.go:71-78)
parseIgnore(ignoreList) ==
    IF ignoreList # <<>>
    THEN LET parts == Split(ignoreList, 44)
         IN  [i \in 1..Len(parts) |-> TrimSpace(parts[i])]
    ELSE <<>>

\* rootCmd.RunE up to the call of generateReadme (main.go:58-85); the target
\* directory exists or not
RunE ==
    /\ pc = "start"
    /\ cmd = "root"
    /\ \E exists \in BOOLEAN :
        /\ env' = [targetExists |-> exists]
        /\ IF ~exists
           THEN Finish("error") /\ UNCHANGED config
           ELSE /\ config' = [config EXCEPT
                        !.ignorePatterns = parseIgnore(flags.ignore),
                        !.includeFiles = IF config.includeContent THEN TRUE ELSE @]
                /\ pc' = "create"
                /\ UNCHANGED result
    /\ UNCHANGED <<cmd, flags, fs, created, doc, treeOut, treeErr, contSecs, contErr>>

EmptyFile == FileNode(0, 0, <<>>)

\* os.Create placed after the passes: the passes do not see the output file
CreateOutput_unseen ==
    /\ pc = "create"
    /\ \E denied \in BOOLEAN :
        LET o == config.outputFile
            impossible == o.inside /\ \/ Parent(o.path) \notin DOMAIN fs
                                      \/ ~fs[Parent(o.path)].isDir
                                      \/ (o.path \in DOMAIN fs /\ fs[o.path].isDir)
        IN  IF denied \/ impossible
            THEN Finish("error") /\ UNCHANGED <<fs, created>>
            ELSE /\ created' = TRUE
                 /\ fs' = fs
                 /\ pc' = "ignorefile"
                 /\ UNCHANGED result
    /\ doc' = <<>>
    /\ UNCHANGED <<cmd, flags, env, config, treeOut, treeErr, contSecs, contErr>>

\* os.Create(config.outputFile) (main.go:133-137): fails when the directory
\* of the file is missing or the path is a directory, or for a reason of the
\* environment (permissions); creates or truncates the file
CreateOutput ==
    /\ pc = "create"
    /\ \E denied \in BOOLEAN :
        LET o == config.outputFile
            impossible == o.inside /\ \/ Parent(o.path) \notin DOMAIN fs
                                      \/ ~fs[Parent(o.path)].isDir
                                      \/ (o.path \in DOMAIN fs /\ fs[o.path].isDir)
        IN  IF denied \/ impossible
            THEN Finish("error") /\ UNCHANGED <<fs, created>>
            ELSE /\ created' = TRUE
                 /\ fs' = IF o.inside
                          THEN [p \in DOMAIN fs \cup {o.path} |->
                                    IF p = o.path THEN EmptyFile ELSE fs[p]]
                          ELSE fs
                 /\ pc' = "ignorefile"
                 /\ UNCHANGED result
    /\ doc' = <<>>
    /\ UNCHANGED <<cmd, flags, env, config, treeOut, treeErr, contSecs, contErr>>

\* the merge of .foldermd.ignore (main.go:146-154)
LoadIgnoreFile ==
    /\ pc = "ignorefile"
    /\ config' =
        IF <<IgnoreFileName>> \in DOMAIN fs
        THEN LET r == readIgnoreFile(NodeAt(fs, config, <<IgnoreFileName>>, doc))
             IN  IF ~r.err
                 THEN [config EXCEPT !.ignorePatterns = @ \o r.patterns]
                 ELSE config
        ELSE config
    /\ pc' = "header"
    /\ UNCHANGED <<cmd, flags, env, fs, created, doc, treeOut, treeErr, contSecs, contErr, result>>

\* the title, the timestamp and writeProjectInfo (main.go:156-161)
WriteHeader ==
    /\ pc = "header"
    /\ doc' = doc \o <<Ln("title"), Ln("generated")>> \o writeProjectInfo(fs)
    /\ pc' = "structure"
    /\ UNCHANGED <<cmd, flags, env, fs, config, created, treeOut, treeErr, contSecs, contErr, result>>

\* the structure section (main.go:163-180)
WriteStructure ==
    /\ pc = "structure"
    /\ LET legend == IF config.includeFiles
                     THEN <<Ln("fence"), Ln("legend"), Ln("fence")>>
                     ELSE <<>>
           t == writeTree(fs, <<>>, <<>>, config, 0)
           opened == doc \o <<Ln("structure")>> \o legend \o <<Ln("fence")>> \o t.out
       IN  /\ treeOut' = t.out
           /\ treeErr' = t.err
           /\ IF t.err
              THEN doc' = opened /\ Finish("error")
              ELSE /\ doc' = opened \o <<Ln("fence")>>
                   /\ pc' = IF config.includeContent THEN "contents" ELSE "footer"
                   /\ UNCHANGED result
    /\ UNCHANGED <<cmd, flags, env, fs, config, created, contSecs, contErr>>

\* the content section (main.go:183-189)
WriteContents ==
    /\ pc = "contents"
    /\ LET c == writeFileContents(fs, config, doc \o <<Ln("fileContents")>>)
       IN  /\ doc' = c.doc
           /\ contSecs' = c.secs
           /\ contErr' = c.err
           /\ IF c.err THEN Finish("error") ELSE pc' = "footer" /\ UNCHANGED result
    /\ UNCHANGED <<cmd, flags, env, fs, config, created, treeOut, treeErr>>

\* the footer and the successful return (main.go:191-195)
WriteFooter ==
    /\ pc = "footer"
    /\ doc' = doc \o writeFooter(config)
    /\ Finish("ok")
    /\ UNCHANGED <<cmd, flags, env, fs, config, created, treeOut, treeErr, contSecs, contErr>>

\* createIgnoreFile without the test for an existing file
InitIgnoreFile_overwrites ==
    /\ pc = "start"
    /\ cmd = "init"
    /\ \E writeOK \in BOOLEAN :
        IF ~writeOK
        THEN Finish("error") /\ UNCHANGED fs
        ELSE /\ fs' = [p \in DOMAIN fs \cup {<<IgnoreFileName>>} |->
                          IF p = <<IgnoreFileName>> THEN DefaultIgnoreFile ELSE fs[p]]
             /\ Finish("ok")
    /\ UNCHANGED <<cmd, flags, env, config, created, doc, treeOut, treeErr, contSecs, contErr>>

\* initCmd.RunE = createIgnoreFile (main.go:521-587), run in the target
\* directory; os.WriteFile succeeds or not
InitIgnoreFile ==
    /\ pc = "start"
    /\ cmd = "init"
    /\ \E writeOK \in BOOLEAN :
        IF <<IgnoreFileName>> \in DOMAIN fs
        THEN Finish("error") /\ UNCHANGED fs
        ELSE IF ~writeOK
        THEN Finish("error") /\ UNCHANGED fs
        ELSE /\ fs' = [p \in DOMAIN fs \cup {<<IgnoreFileName>>} |->
                          IF p = <<IgnoreFileName>> THEN DefaultIgnoreFile ELSE fs[p]]
             /\ Finish("ok")
    /\ UNCHANGED <<cmd, flags, env, config, created, doc, treeOut, treeErr, contSecs, contErr>>

Next ==
    \/ RunE
    \/ CreateOutput
    \/ LoadIgnoreFile
    \/ WriteHeader
    \/ WriteStructure
    \/ WriteContents
    \/ WriteFooter
    \/ InitIgnoreFile

Spec == Init /\ [][Next]_vars

(***************************************************************************)
(* Properties                                                              *)
(***************************************************************************)
TypeOK ==
    /\ pc \in {"start", "create", "ignorefile", "header", "structure", "contents", "footer", "done"}
    /\ result \in {"none", "ok", "error"}
    /\ (pc = "done") = (result # "none")

\* a line that is a code fence: one the program wrote, or a line of a file
\* that consists of three backticks
IsFence(l) == l.k = "fence" \/ (l.k = "raw" /\ TrimSpace(l.txt) = <<96, 96, 96>>)

\* a fence without info string; only such a line closes a fenced block
IsBareFence(l) == IsFence(l) /\ l.lang = ""

\* TRUE when a fenced block is open after the lines of d
RECURSIVE FenceOpenAfter(_)
FenceOpenAfter(d) ==
    IF d = <<>> THEN FALSE
    ELSE LET before == FenceOpenAfter(SubSeq(d, 1, Len(d) - 1))
             l == d[Len(d)]
         IN  IF before THEN ~IsBareFence(l) ELSE IsFence(l)

WellFormed(d) == ~FenceOpenAfter(d)

\* C1: on whichever path a run of the root command ends, the document left
\* in the output file has every fenced block closed.
C1_WellFormedOnEveryPath ==
    (pc = "done" /\ cmd = "root" /\ created) => WellFormed(doc)

(***************************************************************************)
(* Phases of a run, as seen from a state                                   *)
(***************************************************************************)
\* the tree pass has run (the document is empty until the header is written)
TreeDone == cmd = "root" /\ (pc \in {"contents", "footer"} \/ (pc = "done" /\ doc # <<>>))

\* the content pass has run
ContentsDone ==
    /\ cmd = "root" /\ config.includeContent /\ ~treeErr
    /\ (pc = "footer" \/ (pc = "done" /\ doc # <<>>))

\* the lines of the document up to the heading of the content section
ContentsPrefix ==
    LET i == CHOOSE k \in 1..Len(doc) :
                 doc[k].k = "fileContents" /\ \A j \in 1..(k - 1) : doc[j].k # "fileContents"
    IN  SubSeq(doc, 1, i)

\* the names of all entries below the target directory
EntryNames == {Base(p) : p \in DOMAIN fs \ {<<>>}}

(***************************************************************************)
(* C2                                                                      *)
(***************************************************************************)
\* patterns to add to the ignore list
ExtraPatterns == { <<42, 46, 122, 122, 122>>, <<110, 111, 109, 97, 116, 99, 104>>, <<63, 46, 122, 122>>, <<42, 46, 103, 111>>, <<108, 105, 98>> }

\* the pattern p equals no entry name and globs none
MatchesNothing(p) == \A name \in EntryNames : p # name /\ ~Match(p, name)

AddPattern(cfg, p) == [cfg EXCEPT !.ignorePatterns = @ \o <<p>>]

SameTree(cfg2) ==
    LET t == writeTree(fs, <<>>, <<>>, cfg2, 0)
    IN  t.out = treeOut /\ t.err = treeErr

SameContents(cfg2) ==
    ContentsDone =>
        LET c == writeFileContents(fs, cfg2, ContentsPrefix)
        IN  c.secs = contSecs /\ c.err = contErr

\* C2 as stated: a run with an added pattern that matches no entry name
\* produces the same tree section, the same content section and the same
\* footer.
C2_OutputUnchanged ==
    (cmd = "root" /\ pc = "done" /\ result = "ok") =>
        \A p \in ExtraPatterns : MatchesNothing(p) =>
            /\ SameTree(AddPattern(config, p))
            /\ SameContents(AddPattern(config, p))
            /\ writeFooter(AddPattern(config, p)) = writeFooter(config)

\* C2 amended: with an added pattern that matches no entry name the tree
\* pass and the content pass write the same lines and return the same
\* error; the footer differs in its "Ignore patterns" line and nowhere else.
C2_TreeAndContentsUnchanged ==
    (pc = "done" /\ TreeDone) =>
        \A p \in ExtraPatterns : MatchesNothing(p) =>
            /\ SameTree(AddPattern(config, p))
            /\ SameContents(AddPattern(config, p))
            /\ \A i \in 1..Len(writeFooter(config)) :
                   (writeFooter(AddPattern(config, p))[i] = writeFooter(config)[i])
                       = (writeFooter(config)[i].k # "cfgIgnore")

\* a successful content-mode run whose ignore list drops entries and to
\* which a pattern matching nothing can be added
C2_Witness ==
    /\ cmd = "root" /\ pc = "done" /\ result = "ok" /\ ContentsDone /\ contSecs # <<>>
    /\ \E name \in EntryNames : shouldIgnore(name, config)
    /\ \E p \in ExtraPatterns : MatchesNothing(p)

(***************************************************************************)
(* C3, C4: what the two passes list                                        *)
(***************************************************************************)
\* the paths of the lines of the tree, in the order written
TreePaths == [i \in 1..Len(treeOut) |-> treeOut[i].path]

\* the paths of the files that got a section, in the order written
SectionPaths == [i \in 1..Len(contSecs) |-> contSecs[i].path]

InSeq(x, s) == \E i \in 1..Len(s) : s[i] = x

Occurrences(x, s) == Cardinality({i \in 1..Len(s) : s[i] = x})

\* depth of an entry: 0 for a direct child of the target directory
Depth(p) == Len(p) - 1

WithinDepth(p) == config.maxDepth >= 0 => Depth(p) <= config.maxDepth

\* the name passes the ignore rule and the hidden-file rule
NameKept(name) ==
    /\ \A i \in 1..Len(config.ignorePatterns) : ~PatternHits(config.ignorePatterns[i], name)
    /\ config.showHidden \/ ~HasPrefix(name, <<46>>)

\* the entry is not filtered out: its name and the name of every directory
\* above it pass the ignore and hidden rules, and it is a directory or files
\* are included
FilteredIn(p) ==
    /\ \A i \in 1..Len(p) : NameKept(p[i])
    /\ fs[p].isDir \/ config.includeFiles

Entries == DOMAIN fs \ {<<>>}

RegularFiles == {p \in Entries : ~fs[p].isDir}

\* C3 as stated: in content mode a regular file gets a section if and only
\* if it has a line in the tree; no section for a file under a directory the
\* tree dropped.
C3_SectionIffTreeLine ==
    (ContentsDone /\ ~contErr) =>
        \A p \in RegularFiles : InSeq(p, SectionPaths) = InSeq(p, TreePaths)

\* C4: after a tree pass that returned no error, the tree has exactly one
\* line for every entry that is not filtered out and whose depth is within
\* --depth (every depth when --depth is negative), and no other line; with
\* --depth 0 the lines are the kept children of the target directory in
\* sorted order.  Whatever the outcome, no entry is listed twice and no
\* entry deeper than --depth or filtered out is listed.
C4_DepthLimit ==
    TreeDone =>
        /\ \A p \in Entries : Occurrences(p, TreePaths) <= 1
        /\ \A i \in 1..Len(TreePaths) :
               TreePaths[i] \in Entries /\ FilteredIn(TreePaths[i]) /\ WithinDepth(TreePaths[i])
        /\ ~treeErr =>
               \A p \in Entries : (FilteredIn(p) /\ WithinDepth(p)) => InSeq(p, TreePaths)
        /\ (~treeErr /\ config.maxDepth = 0) =>
               /\ \A i \in 1..Len(TreePaths) : Len(TreePaths[i]) = 1
               /\ \A i \in 1..(Len(TreePaths) - 1) :
                      entryLess(fs, <<>>, Base(TreePaths[i]), Base(TreePaths[i + 1]))

\* a finished tree pass with --depth 1 over a tree that has a kept entry at
\* depth 2 and a kept directory at depth 1, listed without its children
C4_Witness ==
    /\ TreeDone /\ ~treeErr /\ config.maxDepth = 1
    /\ \E p \in Entries : Depth(p) = 2 /\ FilteredIn(p) /\ ~InSeq(p, TreePaths)
    /\ \E p \in Entries : Depth(p) = 1 /\ fs[p].isDir /\ InSeq(p, TreePaths)

(***************************************************************************)
(* C5, C9: the section of a file                                           *)
(***************************************************************************)
\* the file has a null byte among its first 512 bytes
NullInSniff(node) == node.nullAt # 0 /\ node.nullAt <= SniffLen

IsOutputFile(p) == config.outputFile.inside /\ config.outputFile.path = p

\* the files whose section the claims are about: regular files that are not
\* filtered out and lie within --depth, the output file apart
ContentFiles ==
    {p \in RegularFiles : FilteredIn(p) /\ WithinDepth(p) /\ ~IsOutputFile(p)}

\* the section written for the file p
SectionOf(p) == contSecs[CHOOSE i \in 1..Len(contSecs) : contSecs[i].path = p].lines

\* C5 as stated: every such file with a null byte in its first 512 bytes has
\* the 'Binary file' placeholder and no content, whatever its size.
C5_NullByteIsBinary ==
    (ContentsDone /\ ~contErr) =>
        \A p \in ContentFiles : NullInSniff(fs[p]) =>
            /\ InSeq(p, SectionPaths)
            /\ Len(SectionOf(p)) = 2
            /\ SectionOf(p)[2].k = "binary"

\* C5 amended: such a file of at most 1 MiB has the 'Binary file'
\* placeholder, a larger one the 'too large' placeholder; in both cases the
\* section is the header and the placeholder, without content.
C5_NullByteIsBinaryUpTo1MiB ==
    (ContentsDone /\ ~contErr) =>
        \A p \in ContentFiles : NullInSniff(fs[p]) =>
            /\ InSeq(p, SectionPaths)
            /\ Len(SectionOf(p)) = 2
            /\ SectionOf(p)[1] = [Ln("section") EXCEPT !.path = p]
            /\ SectionOf(p)[2].k = IF fs[p].size > SizeLimit THEN "toolarge" ELSE "binary"

\* a content pass over a file with a known text extension, a null byte at
\* offset 3 and a size under 1 MiB
C5_Witness ==
    /\ ContentsDone /\ ~contErr
    /\ << <<97, 46, 103, 111>> >> \in ContentFiles
    /\ fs[<< <<97, 46, 103, 111>> >>].nullAt = 3
    /\ SectionOf(<< <<97, 46, 103, 111>> >>)[2].k = "binary"

\* the section C9 describes for the file p
ExpectedSection(p) ==
    LET node == fs[p]
        head == [Ln("section") EXCEPT !.path = p]
        fsz == formatFileSize(node.size)
        lang == getLanguageFromExtension(ToLower(Ext(Base(p))))
    IN  IF node.size > SizeLimit THEN <<head, [Ln("toolarge") EXCEPT !.sz = fsz]>>
        ELSE IF NullInSniff(node) \/ ~node.openable THEN <<head, [Ln("binary") EXCEPT !.sz = fsz]>>
        ELSE IF node.ioError THEN <<head, Ln("readerror")>>
        ELSE <<head, [Ln("meta") EXCEPT !.sz = fsz, !.lang = lang], [Ln("fence") EXCEPT !.lang = lang]>>
             \o node.lines \o <<Ln("fence")>>

\* C9: each such file has exactly one section: 'too large' over 1 MiB, else
\* 'binary' for a binary file, else the read-error note, else - for every
\* readable file of at most 1 MiB without a null byte in its first 512
\* bytes, the empty file included - header, size/language line and the whole
\* content in a fence tagged with the language.
C9_SectionPerFile ==
    (ContentsDone /\ ~contErr) =>
        \A p \in ContentFiles :
            /\ Occurrences(p, SectionPaths) = 1
            /\ SectionOf(p) = ExpectedSection(p)

(***************************************************************************)
(* C6: the exit status                                                     *)
(***************************************************************************)
DirPaths == {p \in DOMAIN fs : fs[p].isDir}

\* a directory the tree pass lists cannot be listed: it is not filtered
\* out and writeTree is called on it with a depth within --depth
TreeListingFails ==
    \E d \in DirPaths :
        /\ ~fs[d].readable
        /\ \A i \in 1..Len(d) : NameKept(d[i])
        /\ config.maxDepth >= 0 => Len(d) <= config.maxDepth

\* a directory the content pass lists cannot be listed
ContentListingFails ==
    \E d \in DirPaths :
        /\ ~fs[d].readable
        /\ config.maxDepth >= 0 => (IF d = <<>> THEN 0 ELSE Depth(d)) <= config.maxDepth

LastLines(d, n) == SubSeq(d, Len(d) - n + 1, Len(d))

\* C6: a run of the root command exits 1 exactly when the target directory
\* does not exist, the output file cannot be created, or a directory listing
\* fails in the tree pass or in the content pass; otherwise it exits 0 and
\* the document ends with the footer.
C6_ExitStatus ==
    (pc = "done" /\ cmd = "root") =>
        /\ (result = "error") =
               \/ ~env.targetExists
               \/ ~created
               \/ TreeListingFails
               \/ (config.includeContent /\ ContentListingFails)
        /\ result = "ok" =>
               LastLines(doc, Len(writeFooter(config))) = writeFooter(config)

\* a run that exits 0 although the statistics walk met an unreadable
\* directory and the content of a file could not be read
C6_Witness ==
    /\ pc = "done" /\ cmd = "root" /\ result = "ok" /\ ContentsDone
    /\ \E d \in DirPaths : ~fs[d].readable
    /\ \E i \in 1..Len(contSecs) : contSecs[i].lines[2].k = "readerror"
    /\ \E i \in 1..Len(contSecs) : contSecs[i].lines[2].k = "binary"

(***************************************************************************)
(* C7: init                                                                *)
(***************************************************************************)
\* C7: init in a directory that has a .foldermd.ignore ends with an error
\* and leaves the filesystem as it was; the filesystem changes only when
\* there was no .foldermd.ignore, and then to hold the default ignore file.
C7_InitKeepsExisting ==
    [][(pc = "start" /\ cmd = "init") =>
          /\ <<IgnoreFileName>> \in DOMAIN fs => (result' = "error" /\ fs' = fs)
          /\ fs' # fs =>
                /\ <<IgnoreFileName>> \notin DOMAIN fs
                /\ result' = "ok"
                /\ fs'[<<IgnoreFileName>>] = DefaultIgnoreFile
                /\ \A p \in DOMAIN fs : fs'[p] = fs[p]]_vars

\* init has ended with an error and the user's ignore file is in place
C7_Witness ==
    /\ pc = "done" /\ cmd = "init" /\ result = "error"
    /\ <<IgnoreFileName>> \in DOMAIN fs
    /\ fs[<<IgnoreFileName>>] = UserIgnoreFile

(***************************************************************************)
(* C8: the order of the tree                                               *)
(***************************************************************************)
\* byte-wise order of two names
ByteLess(a, b) ==
    \E k \in 1..(Len(b)) :
        /\ \A j \in 1..(k - 1) : j <= Len(a) /\ a[j] = b[j]
        /\ (k > Len(a) \/ (k <= Len(a) /\ a[k] < b[k]))

\* entry a comes before entry b: a directory before a file, else by name
ComesBefore(a, b) ==
    \/ fs[a].isDir /\ ~fs[b].isDir
    \/ fs[a].isDir = fs[b].isDir /\ ByteLess(Base(a), Base(b))

Reverse(s) == [i \in 1..Len(s) |-> s[Len(s) - i + 1]]

Rotate(s) == IF s = <<>> THEN s ELSE Tail(s) \o <<Head(s)>>

\* C8: of two lines of the tree for entries of the same directory, the one
\* written first is a directory and the other is not, or both are of the same
\* kind and the first has the byte-wise smaller name; and the sort gives the
\* same sequence when the listing of a directory comes reversed or rotated.
C8_TreeOrder ==
    TreeDone =>
        /\ \A i, j \in 1..Len(TreePaths) :
               (i < j /\ Parent(TreePaths[i]) = Parent(TreePaths[j]))
                   => ComesBefore(TreePaths[i], TreePaths[j])
        /\ \A d \in DirPaths :
               LET kept == SelectSeq(ReadDir(fs, d), LAMBDA name : keepEntry(fs, d, config, name))
               IN  /\ SortSlice(fs, d, Reverse(kept)) = SortSlice(fs, d, kept)
                   /\ SortSlice(fs, d, Rotate(kept)) = SortSlice(fs, d, kept)

\* a tree in which the directory Web precedes the file README.md, whose
\* name is smaller, and Web precedes lib, README.md precedes a.go
C8_Witness ==
    /\ TreeDone /\ ~treeErr
    /\ \E i, j, k, l \in 1..Len(TreePaths) :
          /\ i < j /\ j < k /\ k < l
          /\ TreePaths[i] = << <<87, 101, 98>> >>
          /\ TreePaths[j] = << <<108, 105, 98>> >>
          /\ TreePaths[k] = << <<82, 69, 65, 68, 77, 69, 46, 109, 100>> >>
          /\ TreePaths[l] = << <<97, 46, 103, 111>> >>

(***************************************************************************)
(* C10: the output file is seen by the passes                              *)
(***************************************************************************)
OutPath == config.outputFile.path

OutInside == config.outputFile.inside

\* every directory above p can be listed
AncestorsReadable(p) == \A i \in 0..(Len(p) - 1) : fs[SubSeq(p, 1, i)].readable

\* the files the statistics walk reaches
CountedFiles == {p \in RegularFiles : AncestorsReadable(p)}

\* the header has been written
HeaderDone == cmd = "root" /\ (pc \in {"structure", "contents", "footer"} \/ (pc = "done" /\ doc # <<>>))

\* the "Total Files" figure of the document
TotalFiles == doc[CHOOSE i \in 1..Len(doc) : doc[i].k = "totalFiles" /\ \A j \in 1..(i - 1) : doc[j].k # "totalFiles"].n

\* the output file exists, created, while the passes run
CreatedBeforePasses ==
    (cmd = "root" /\ pc \in {"ignorefile", "header", "structure", "contents", "footer"}) =>
        /\ created
        /\ OutInside => (OutPath \in DOMAIN fs /\ fs[OutPath] = EmptyFile)

\* the statistics count the output file
OutputCounted == OutPath \in CountedFiles /\ TotalFiles = Cardinality(CountedFiles)

\* the section of the output file holds exactly the lines written before it
OutputSection ==
    /\ Occurrences(OutPath, SectionPaths) = 1
    /\ LET s == SectionOf(OutPath)
           body == SubSeq(s, 4, Len(s) - 1)
       IN  /\ Len(s) >= 5
           /\ s[1] = [Ln("section") EXCEPT !.path = OutPath]
           /\ s[2].k = "meta"
           /\ s[3].k = "fence"
           /\ s[Len(s)] = Ln("fence")
           /\ body # <<>>
           /\ SubSeq(doc, 1, Len(body)) = body
           /\ SubSeq(doc, Len(body) + 1, Len(body) + Len(s)) = s

\* C10 as stated: the output file is created before the passes read the
\* filesystem; when it lies inside the target directory and its name is
\* neither ignored nor hidden, a successful run has counted it, listed it in
\* the tree (with includeFiles) and written a section for it (content mode)
\* from what had been written.
C10_OutputObserved ==
    /\ CreatedBeforePasses
    /\ (cmd = "root" /\ pc = "done" /\ result = "ok" /\ OutInside /\ NameKept(Base(OutPath))) =>
           /\ OutputCounted
           /\ config.includeFiles => InSeq(OutPath, TreePaths)
           /\ config.includeContent => OutputSection

\* C10 amended: the output file is created before the passes read the
\* filesystem.  When it lies inside the target directory: the statistics
\* count it if every directory above it can be listed; a tree pass that
\* returned no error lists it (with includeFiles) if its name and the name
\* of every directory above it are neither ignored nor hidden and its depth
\* is within --depth; a content pass that returned no error has written a
\* section for it, from the lines written before, if its name is neither
\* ignored nor hidden and its depth is within --depth.
C10_OutputObservedWithinReach ==
    /\ CreatedBeforePasses
    /\ (HeaderDone /\ OutInside /\ AncestorsReadable(OutPath)) => OutputCounted
    /\ (TreeDone /\ ~treeErr /\ OutInside /\ config.includeFiles
          /\ FilteredIn(OutPath) /\ WithinDepth(OutPath)) => InSeq(OutPath, TreePaths)
    /\ (ContentsDone /\ ~contErr /\ OutInside
          /\ NameKept(Base(OutPath)) /\ WithinDepth(OutPath)) => OutputSection

\* a successful content-mode run that wrote lib/OUT.md, a file that did not
\* exist before, counted it, listed it and embedded it after another section
C10_Witness ==
    /\ cmd = "root" /\ pc = "done" /\ result = "ok" /\ ContentsDone
    /\ OutPath = << <<108, 105, 98>>, <<79, 85, 84, 46, 109, 100>> >> /\ OutInside
    /\ OutputCounted /\ InSeq(OutPath, TreePaths) /\ OutputSection
    /\ \E i \in 1..Len(SectionOf(OutPath)) : SectionOf(OutPath)[i].k = "section" /\ i > 1
====
